---- MODULE Spec2Model ----
(***************************************************************************)
(* A model of photo-collage-maker.py: the layout loop of                   *)
(* arrange_images_on_canvas, the crop window of crop_image and the colour  *)
(* parser parse_rgb_color.                                                 *)
(*                                                                         *)
(* Float arithmetic is modelled over exact rationals held as numerator /   *)
(* denominator pairs.  A quotient whose reduced denominator is a power of  *)
(* two is a double without rounding.  Where a rounded quotient entered and *)
(* the exact result is a non-zero integer, the double the program computes *)
(* can land just below it, so int() may give the value one nearer to zero: *)
(* IntOfFloat returns both outcomes.                                       *)
(***************************************************************************)
EXTENDS Integers, Sequences, FiniteSets, TLC

VARIABLES
    \* arrange_images_on_canvas
    pc, images, canvas_width, canvas_height, padding, num_rows_arg,
    num_rows, num_cols, target_height, row, row_images, adjusted_widths,
    width_difference, col, current_x, current_y, pasted, plan,
    \* crop_image
    crop_pc, width, height, target_width, crop_target_height, face_locations,
    new_size, crop_box,
    \* parse_rgb_color
    color_pc, color_string, color_result

planVars == <<pc, images, canvas_width, canvas_height, padding, num_rows_arg,
              num_rows, num_cols, target_height, row, row_images,
              adjusted_widths, width_difference, col, current_x, current_y,
              pasted, plan>>
cropVars == <<crop_pc, width, height, target_width, crop_target_height,
              face_locations, new_size, crop_box>>
colorVars == <<color_pc, color_string, color_result>>
vars == <<planVars, cropVars, colorVars>>

----------------------------------------------------------------------------
(* Bounds of the model.                                                    *)

MaxImages == 3
MaxCanvasWidth == 4
MaxCanvasHeight == 6
MaxPadding == 1
MaxRows == 3
MaxSource == 5
MaxTarget == 3
MaxColorLen == 7

\* Pixel sizes (width, height) of the loaded images: square, landscape and
\* two portrait shapes, one with a height that is no power of two.
ImageSizes == {<<1, 1>>, <<2, 1>>, <<2, 3>>}

----------------------------------------------------------------------------
(* Arithmetic helpers.                                                     *)

Min(a, b) == IF a <= b THEN a ELSE b
Max(a, b) == IF a >= b THEN a ELSE b

RECURSIVE SumSeq(_)
SumSeq(s) == IF s = <<>> THEN 0 ELSE Head(s) + SumSeq(Tail(s))

RECURSIVE ProdSeq(_)
ProdSeq(s) == IF s = <<>> THEN 1 ELSE Head(s) * ProdSeq(Tail(s))

RECURSIVE SeqChoices(_)
SeqChoices(sets) ==
    IF sets = <<>> THEN {<<>>}
    ELSE {<<x>> \o t : x \in Head(sets), t \in SeqChoices(Tail(sets))}

\* int(x) of Python truncates toward zero; x = a / b with b > 0.
Trunc(a, b) == IF a >= 0 THEN a \div b ELSE -((-a) \div b)

RECURSIVE Gcd(_, _)
Gcd(a, b) == IF b = 0 THEN a ELSE Gcd(b, a % b)

Abs(a) == IF a >= 0 THEN a ELSE -a

RECURSIVE IsPowerOfTwo(_)
IsPowerOfTwo(n) == n = 1 \/ (n > 1 /\ n % 2 = 0 /\ IsPowerOfTwo(n \div 2))

\* a / b (b # 0) is computed without rounding.
ExactQuotient(a, b) == IsPowerOfTwo(Abs(b) \div Gcd(Abs(a), Abs(b)))

\* The values int() can give for the double that stands for a / b (b > 0);
\* exact: no rounded quotient entered the computation.
IntOfFloat(a, b, exact) ==
    IF ~exact /\ a % b = 0 /\ a # 0
    THEN {a \div b, IF a > 0 THEN (a \div b) - 1 ELSE (a \div b) + 1}
    ELSE {Trunc(a, b)}

\* seq[lo:hi] of Python for 0 <= lo, 0 <= hi.
PySlice(s, lo, hi) == SubSeq(s, Min(lo, Len(s)) + 1, Min(hi, Len(s)))

----------------------------------------------------------------------------
(* arrange_images_on_canvas: the row-count heuristic.                      *)

\* The largest m with m * m <= a / b (b > 0).
RECURSIVE FloorSqrtFrom(_, _, _)
FloorSqrtFrom(m, a, b) ==
    IF (m + 1) * (m + 1) * b <= a THEN FloorSqrtFrom(m + 1, a, b) ELSE m

\* round(x) of Python 3 (ties go to the even integer) for the x >= 0 with
\* (2 * x) ^ 2 = a / b.
PyRoundOfHalfSqrt(a, b) ==
    LET m == FloorSqrtFrom(0, a, b)
        j == m \div 2
    IN  IF m % 2 = 0 THEN j
        ELSE IF m * m * b = a THEN (IF j % 2 = 0 THEN j ELSE j + 1)
        ELSE j + 1

Heights(imgs) == [i \in 1..Len(imgs) |-> imgs[i].height]

\* sum(img.width / img.height) as a numerator over ProdSeq(Heights(imgs)).
AspectSumNum(imgs) ==
    SumSeq([i \in 1..Len(imgs) |->
               imgs[i].width * (ProdSeq(Heights(imgs)) \div imgs[i].height)])

\* The square root taken over the whole product: not what line 118 does.
HeuristicRowsWholeSqrt(imgs, cw, ch) ==
    Max(1, PyRoundOfHalfSqrt(4 * ch * Len(imgs) * Len(imgs) * ProdSeq(Heights(imgs)),
                             cw * AspectSumNum(imgs)))

\* max(1, round((canvas_height / canvas_width) * (num_images / avg) ** 0.5))
\* with avg = sum(aspect_ratios) / num_images: x = (ch / cw) * sqrt(n * n * D / T).
HeuristicRows(imgs, cw, ch) ==
    Max(1, PyRoundOfHalfSqrt(4 * ch * ch * Len(imgs) * Len(imgs) * ProdSeq(Heights(imgs)),
                             cw * cw * AspectSumNum(imgs)))

\* Floor where the code takes the ceiling.
NumColsFloor(n, rows) == n \div rows

\* num_cols = (num_images + num_rows - 1) // num_rows
NumCols(n, rows) == (n + rows - 1) \div rows

\* Rounds the row height up instead of down.
TargetHeightCeil(ch, rows, pad) == -((-(ch - (rows + 1) * pad)) \div rows)

\* Counts the padding between the rows only, not the two outer ones.
TargetHeightInnerPadding(ch, rows, pad) == (ch - (rows - 1) * pad) \div rows

\* target_height = (canvas_height - (num_rows + 1) * padding) // num_rows
TargetHeight(ch, rows, pad) == (ch - (rows + 1) * pad) \div rows

----------------------------------------------------------------------------
(* arrange_images_on_canvas: one row.                                      *)

\* Slices that start one image late.
RowSliceShifted(imgs, r, cols) == PySlice(imgs, r * cols + 1, (r + 1) * cols + 1)

\* row_images = images[row * num_cols:(row + 1) * num_cols]
RowSlice(imgs, r, cols) == PySlice(imgs, r * cols, (r + 1) * cols)

\* img.width / img.height is a double without rounding for every image.
ExactAspects(rimgs) ==
    \A i \in 1..Len(rimgs) : ExactQuotient(rimgs[i].width, rimgs[i].height)

\* The values adjusted_widths can take before the remainder is distributed.
\* total_width = th * T / D; when it is positive the scale factor is
\* avail * D / (th * T) and image i gets int(w_i * (D / h_i) * avail / T);
\* otherwise the scale factor is 1 and image i gets int(w_i * th / h_i).
AdjustedWidthChoices(rimgs, th, cw, pad) ==
    LET D == ProdSeq(Heights(rimgs))
        T == AspectSumNum(rimgs)
        avail == cw - (Len(rimgs) + 1) * pad
    IN  IF th * T > 0
        THEN SeqChoices([i \in 1..Len(rimgs) |->
                 IntOfFloat(rimgs[i].width * (D \div rimgs[i].height) * avail, T,
                            ExactAspects(rimgs) /\ ExactQuotient(avail * D, th * T))])
        ELSE SeqChoices([i \in 1..Len(rimgs) |->
                 IntOfFloat(rimgs[i].width * th, rimgs[i].height,
                            ExactQuotient(rimgs[i].width, rimgs[i].height))])

\* width_difference = canvas_width - sum(adjusted_widths) - (len + 1) * padding
WidthDifference(widths, cw, pad) == cw - SumSeq(widths) - (Len(widths) + 1) * pad

\* for i in range(width_difference): adjusted_widths[i % len] += 1
RECURSIVE DistributeFrom(_, _, _)
DistributeFrom(widths, i, diff) ==
    IF i >= diff THEN widths
    ELSE DistributeFrom(
             [widths EXCEPT ![(i % Len(widths)) + 1] = @ + 1], i + 1, diff)

\* Rounding alone, the remainder dropped.
DistributeNothing(widths, diff) == widths

\* if width_difference > 0 and row_images: distribute it cyclically
Distribute(widths, diff) ==
    IF diff > 0 /\ widths # <<>> THEN DistributeFrom(widths, 0, diff) ELSE widths

\* Advances by the padding only.
NextOffsetPaddingOnly(offset, size, pad) == offset + pad

\* current_x += target_width + padding; current_y += target_height + padding
NextOffset(offset, size, pad) == offset + size + pad

----------------------------------------------------------------------------
(* arrange_images_on_canvas: the state machine.                            *)

\* The image sequences the loader can hand over: path i, pixel size.
ImageSeqs ==
    UNION {{[i \in 1..n |-> [path |-> i, width |-> sz[i][1], height |-> sz[i][2]]] :
               sz \in [1..n -> ImageSizes]} : n \in 0..MaxImages}

PlanIdle ==
    /\ pc = "idle" /\ images = <<>> /\ canvas_width = 0 /\ canvas_height = 0
    /\ padding = 0 /\ num_rows_arg = <<>> /\ num_rows = 0 /\ num_cols = 0
    /\ target_height = 0 /\ row = 0 /\ row_images = <<>>
    /\ adjusted_widths = <<>> /\ width_difference = 0 /\ col = 0
    /\ current_x = 0 /\ current_y = 0 /\ pasted = <<>> /\ plan = <<>>

CropIdle ==
    /\ crop_pc = "idle" /\ width = 0 /\ height = 0 /\ target_width = 0
    /\ crop_target_height = 0 /\ face_locations = <<>> /\ new_size = 0
    /\ crop_box = <<>>

ColorIdle == color_pc = "idle" /\ color_string = <<>> /\ color_result = <<>>

\* main() hands the parsed arguments over; nothing is computed yet.
Init ==
    /\ pc = "start"
    /\ images \in ImageSeqs
    /\ canvas_width \in 1..MaxCanvasWidth
    /\ canvas_height \in 1..MaxCanvasHeight
    /\ padding \in 0..MaxPadding
    /\ num_rows_arg \in {<<>>} \cup {<<r>> : r \in 1..MaxRows}
    /\ num_rows = 0 /\ num_cols = 0 /\ target_height = 0 /\ row = 0
    /\ row_images = <<>> /\ adjusted_widths = <<>> /\ width_difference = 0
    /\ col = 0 /\ current_x = 0 /\ current_y = 0
    /\ pasted = <<>> /\ plan = <<>>
    /\ CropIdle /\ ColorIdle

\* Lines 95-99: the output exists and the user does not answer 'y'.
OperationCancelled ==
    /\ pc = "start"
    /\ pc' = "cancelled"
    /\ UNCHANGED <<images, canvas_width, canvas_height, padding, num_rows_arg,
                   num_rows, num_cols, target_height, row, row_images,
                   adjusted_widths, width_difference, col, current_x,
                   current_y, pasted, plan>>
    /\ UNCHANGED <<cropVars, colorVars>>

\* Lines 105-107: no image in the folder.
NoImagesFound ==
    /\ pc = "start" /\ images = <<>>
    /\ pc' = "no_images"
    /\ UNCHANGED <<images, canvas_width, canvas_height, padding, num_rows_arg,
                   num_rows, num_cols, target_height, row, row_images,
                   adjusted_widths, width_difference, col, current_x,
                   current_y, pasted, plan>>
    /\ UNCHANGED <<cropVars, colorVars>>

\* Lines 113-126: row and column count, row height, first y offset.
PlanGrid ==
    /\ pc = "start" /\ images # <<>>
    /\ num_rows' = IF num_rows_arg = <<>>
                   THEN HeuristicRows(images, canvas_width, canvas_height)
                   ELSE num_rows_arg[1]
    /\ num_cols' = NumCols(Len(images), num_rows')
    /\ target_height' = TargetHeight(canvas_height, num_rows', padding)
    /\ current_y' = padding
    /\ row' = 0
    /\ pc' = "row"
    /\ UNCHANGED <<images, canvas_width, canvas_height, padding, num_rows_arg,
                   row_images, adjusted_widths, width_difference, col,
                   current_x, pasted, plan>>
    /\ UNCHANGED <<cropVars, colorVars>>

\* Lines 129-142: the slice of one row, its widths, the first x offset.
ArrangeRow ==
    /\ pc = "row" /\ row < num_rows
    /\ row_images' = RowSlice(images, row, num_cols)
    /\ \E floored \in AdjustedWidthChoices(row_images', target_height,
                                           canvas_width, padding) :
          /\ width_difference' = WidthDifference(floored, canvas_width, padding)
          /\ adjusted_widths' = Distribute(floored, width_difference')
          /\ plan' = Append(plan, [images |-> row_images',
                                   widths |-> adjusted_widths',
                                   floored |-> floored,
                                   height |-> target_height,
                                   width_difference |-> width_difference'])
    /\ current_x' = padding
    /\ col' = 0
    /\ pc' = "paste"
    /\ UNCHANGED <<images, canvas_width, canvas_height, padding, num_rows_arg,
                   num_rows, num_cols, target_height, row, current_y, pasted>>
    /\ UNCHANGED <<cropVars, colorVars>>

\* Lines 144-147: crop one image to its cell and paste it.  Of the call of
\* crop_image only the division of line 42 is taken to fail (next action);
\* the crop window it picks is the subject of SpecCrop.
PasteImage ==
    /\ pc = "paste" /\ col < Len(row_images)
    /\ target_height # 0
    /\ pasted' = Append(pasted, [path |-> row_images[col + 1].path,
                                 x |-> current_x, y |-> current_y,
                                 w |-> adjusted_widths[col + 1],
                                 h |-> target_height])
    /\ current_x' = NextOffset(current_x, adjusted_widths[col + 1], padding)
    /\ col' = col + 1
    /\ UNCHANGED <<pc, images, canvas_width, canvas_height, padding,
                   num_rows_arg, num_rows, num_cols, target_height, row,
                   row_images, adjusted_widths, width_difference, current_y,
                   plan>>
    /\ UNCHANGED <<cropVars, colorVars>>

\* Line 42 inside the call of line 145: target_width / target_height raises
\* ZeroDivisionError when the row height is 0, and the run ends.
CropDivisionByZero ==
    /\ pc = "paste" /\ col < Len(row_images)
    /\ target_height = 0
    /\ pc' = "zero_division"
    /\ UNCHANGED <<images, canvas_width, canvas_height, padding, num_rows_arg,
                   num_rows, num_cols, target_height, row, row_images,
                   adjusted_widths, width_difference, col, current_x,
                   current_y, pasted, plan>>
    /\ UNCHANGED <<cropVars, colorVars>>

\* Line 148: the row is over.
EndRow ==
    /\ pc = "paste" /\ col = Len(row_images)
    /\ current_y' = NextOffset(current_y, target_height, padding)
    /\ row' = row + 1
    /\ pc' = "row"
    /\ UNCHANGED <<images, canvas_width, canvas_height, padding, num_rows_arg,
                   num_rows, num_cols, target_height, row_images,
                   adjusted_widths, width_difference, col, current_x, pasted,
                   plan>>
    /\ UNCHANGED <<cropVars, colorVars>>

\* Lines 150-153: every row is placed, the canvas is saved.
SaveCanvas ==
    /\ pc = "row" /\ row = num_rows
    /\ pc' = "done"
    /\ UNCHANGED <<images, canvas_width, canvas_height, padding, num_rows_arg,
                   num_rows, num_cols, target_height, row, row_images,
                   adjusted_widths, width_difference, col, current_x,
                   current_y, pasted, plan>>
    /\ UNCHANGED <<cropVars, colorVars>>

Next ==
    \/ OperationCancelled
    \/ NoImagesFound
    \/ PlanGrid
    \/ ArrangeRow
    \/ PasteImage
    \/ CropDivisionByZero
    \/ EndRow
    \/ SaveCanvas

Spec == Init /\ [][Next]_vars

----------------------------------------------------------------------------
(* Properties of the layout.                                               *)

Planned == pc \in {"row", "paste", "zero_division", "done"}

RowCount(k) == Len(plan[k].images)

WidthSum(k) == SumSeq(plan[k].widths) + (RowCount(k) + 1) * padding

\* C1 (as stated): every planned row that holds at least one image has
\* sum(final widths) + (images in the row + 1) * padding = canvas width,
\* for every padding >= 0.
ExactWidthFillAnyPadding ==
    \A k \in 1..Len(plan) : RowCount(k) >= 1 => WidthSum(k) = canvas_width

\* C1 (amended): the same equality for every planned row that holds at
\* least one image and whose paddings fit the canvas, that is
\* (images in the row + 1) * padding <= canvas width.
ExactWidthFillWhenPaddingFits ==
    \A k \in 1..Len(plan) :
        (RowCount(k) >= 1 /\ (RowCount(k) + 1) * padding <= canvas_width)
            => WidthSum(k) = canvas_width

\* A row of two or more images with padding whose floored widths fell short
\* and had the remainder distributed.
ExactWidthFillWitness ==
    \E k \in 1..Len(plan) :
        /\ RowCount(k) >= 2 /\ padding >= 1
        /\ (RowCount(k) + 1) * padding <= canvas_width
        /\ plan[k].width_difference > 0
        /\ plan[k].widths # plan[k].floored

Covers(p, px, py) ==
    /\ p.x <= px /\ px < p.x + p.w
    /\ p.y <= py /\ py < p.y + p.h

AllPixelsCovered ==
    \A px \in 0..(canvas_width - 1), py \in 0..(canvas_height - 1) :
        \E i \in 1..Len(pasted) : Covers(pasted[i], px, py)

\* C2 (as stated): with padding = 0, once every row is pasted the cells
\* cover every pixel of the canvas: the row heights add up to the canvas
\* height and each row's widths add up to the canvas width.
FullCoverageAlways ==
    (pc = "done" /\ padding = 0) =>
        /\ AllPixelsCovered
        /\ current_y = canvas_height
        /\ \A k \in 1..Len(plan) : SumSeq(plan[k].widths) = canvas_width

\* C2 (amended): with padding = 0, once every row is pasted each row that
\* holds an image has widths adding up to the canvas width, the row heights
\* add up to canvas_height - (canvas_height mod rows), and the cells cover
\* every pixel exactly when rows divides canvas_height and no row is empty.
FullCoverageWhenRowsDivide ==
    (pc = "done" /\ padding = 0) =>
        /\ \A k \in 1..Len(plan) :
               RowCount(k) >= 1 => SumSeq(plan[k].widths) = canvas_width
        /\ current_y = canvas_height - (canvas_height % num_rows)
        /\ AllPixelsCovered <=>
               /\ canvas_height % num_rows = 0
               /\ \A k \in 1..Len(plan) : RowCount(k) >= 1

\* A finished collage of three images in two rows that covers the canvas.
FullCoverageWitness ==
    /\ pc = "done" /\ padding = 0
    /\ Len(images) = 3 /\ num_rows = 2
    /\ AllPixelsCovered

IsCeilingOf(c, n, r) == c * r >= n /\ (c - 1) * r < n

\* C3 (as stated): the column count is ceil(N / R), rows are consecutive
\* slices of that size, every row but the last holds exactly that many
\* images and only the last may hold fewer.
OnlyLastRowShorter ==
    Planned =>
        /\ IsCeilingOf(num_cols, Len(images), num_rows)
        /\ \A k \in 1..Len(plan) :
               /\ k < num_rows => RowCount(k) = num_cols
               /\ RowCount(k) <= num_cols

\* C3 (amended): the column count is ceil(N / R) and row k (from 0) is the
\* slice of the images from k * cols up to (k + 1) * cols, cut at N: full
\* rows first, then at most one shorter row, then only empty rows.
RowsAreCutSlices ==
    Planned =>
        /\ IsCeilingOf(num_cols, Len(images), num_rows)
        /\ \A k \in 1..Len(plan) :
               /\ k * num_cols <= Len(images) => RowCount(k) = num_cols
               /\ ((k - 1) * num_cols < Len(images) /\ Len(images) < k * num_cols)
                      => RowCount(k) = Len(images) - (k - 1) * num_cols
               /\ (k - 1) * num_cols >= Len(images) => RowCount(k) = 0
               /\ \A i \in 1..RowCount(k) :
                      plan[k].images[i] = images[(k - 1) * num_cols + i]

\* A finished plan with a full row followed by a shorter one.
RowsAreCutSlicesWitness ==
    /\ pc = "done"
    /\ \E k \in 1..Len(plan) : RowCount(k) = num_cols /\ num_cols >= 2
    /\ \E k \in 1..Len(plan) : 0 < RowCount(k) /\ RowCount(k) < num_cols

\* k = max(1, round(x)) for the x >= 0 with (2 * x) ^ 2 = a / b, round
\* taking ties to the even integer.
IsMaxOneRound(k, a, b) ==
    /\ k >= 1
    /\ (2 * k + 1) * (2 * k + 1) * b >= a
    /\ (2 * k + 1) * (2 * k + 1) * b = a => k % 2 = 0
    /\ k > 1 => (2 * k - 1) * (2 * k - 1) * b <= a
    /\ (k > 1 /\ (2 * k - 1) * (2 * k - 1) * b = a) => k % 2 = 0

HeuristicUsed == Planned /\ num_rows_arg = <<>>

\* N * N * D: the numerator of num_images / mean aspect ratio over
\* AspectSumNum(images).
CountRatioNum == Len(images) * Len(images) * ProdSeq(Heights(images))

\* C4 (as stated): without num_rows the row count is
\* max(1, round(sqrt((canvas_height / canvas_width) * (N / mean aspect)))),
\* the square root taken over the whole product.
RowsAreRootOfWholeProduct ==
    HeuristicUsed =>
        IsMaxOneRound(num_rows, 4 * canvas_height * CountRatioNum,
                      canvas_width * AspectSumNum(images))

\* C4 (amended): without num_rows the row count is
\* max(1, round((canvas_height / canvas_width) * sqrt(N / mean aspect))),
\* the square root taken over the image-count ratio only.
RowsAreRatioTimesRoot ==
    HeuristicUsed =>
        IsMaxOneRound(num_rows,
                      4 * canvas_height * canvas_height * CountRatioNum,
                      canvas_width * canvas_width * AspectSumNum(images))

\* The heuristic gave a row count that the whole-product root does not give.
RowsAreRatioTimesRootWitness ==
    /\ HeuristicUsed /\ num_rows >= 2
    /\ ~IsMaxOneRound(num_rows, 4 * canvas_height * CountRatioNum,
                      canvas_width * AspectSumNum(images))

\* C5: every row has the height floor((canvas_height - (rows + 1) * padding)
\* / rows), and leading padding + rows * (row height + padding), the y
\* offset once all rows are placed, is never above the canvas height.
RowHeightBound ==
    Planned =>
        /\ num_rows * target_height <= canvas_height - (num_rows + 1) * padding
        /\ canvas_height - (num_rows + 1) * padding < num_rows * (target_height + 1)
        /\ \A k \in 1..Len(plan) : plan[k].height = target_height
        /\ \A i \in 1..Len(pasted) : pasted[i].h = target_height
        /\ padding + num_rows * (target_height + padding) <= canvas_height
        /\ pc = "done" =>
               /\ current_y = padding + num_rows * (target_height + padding)
               /\ current_y <= canvas_height

\* A finished collage with padding whose rows end short of the canvas.
RowHeightBoundWitness ==
    /\ pc = "done" /\ padding >= 1 /\ num_rows >= 2
    /\ target_height >= 1
    /\ current_y < canvas_height

Overlap(p, q) ==
    /\ Max(p.x, q.x) < Min(p.x + p.w, q.x + q.w)
    /\ Max(p.y, q.y) < Min(p.y + p.h, q.y + q.h)

\* C9: over the whole paste sequence no two target rectangles share a
\* pixel, for every padding >= 0 and every layout.
PasteRectanglesDisjoint ==
    \A i, j \in 1..Len(pasted) : i < j => ~Overlap(pasted[i], pasted[j])

\* A finished collage of three images with area in two rows.
PasteRectanglesDisjointWitness ==
    /\ pc = "done" /\ Len(pasted) = 3 /\ num_rows = 2
    /\ \A i \in 1..Len(pasted) : pasted[i].w >= 1 /\ pasted[i].h >= 1

RECURSIVE ConcatRows(_)
ConcatRows(rows) ==
    IF rows = <<>> THEN <<>> ELSE Head(rows).images \o ConcatRows(Tail(rows))

IsPrefix(s, t) == Len(s) <= Len(t) /\ SubSeq(t, 1, Len(s)) = s

PastedPaths == [i \in 1..Len(pasted) |-> pasted[i].path]

ImagePaths == [i \in 1..Len(images) |-> images[i].path]

\* C10: the row slices concatenated in row order equal the input sequence,
\* so a finished run has pasted each image exactly once, in input order.
EveryImagePlacedOnce ==
    /\ IsPrefix(ConcatRows(plan), images)
    /\ IsPrefix(PastedPaths, ImagePaths)
    /\ (pc = "row" /\ row = num_rows) => ConcatRows(plan) = images
    /\ pc = "done" => ConcatRows(plan) = images /\ PastedPaths = ImagePaths

\* A finished run of three images in two rows.
EveryImagePlacedOnceWitness ==
    /\ pc = "done" /\ Len(images) = 3 /\ num_rows = 2
    /\ Len(pasted) = 3

----------------------------------------------------------------------------
(* crop_image.                                                             *)

\* What face_recognition.face_locations can return for an image of w x h:
\* no face, or boxes (top, right, bottom, left) inside the image, of which
\* only the first is read.
FaceBoxes(w, h) ==
    {<<>>} \cup
    {<<[top |-> t, right |-> r, bottom |-> b, left |-> l]>> :
        t \in 0..(h - 1), r \in 1..w, b \in 1..h, l \in 0..(w - 1)}

ValidFace(faces) ==
    faces # <<>> => faces[1].left < faces[1].right /\ faces[1].top < faces[1].bottom

\* Reads the vertical pair of the box for the horizontal midpoint.
FaceCenterXFromRows(face) == (face.top + face.bottom) \div 2

\* face_center = (face_locations[0][1] + face_locations[0][3]) // 2
FaceCenterX(face) == (face.right + face.left) \div 2

\* face_center = (face_locations[0][0] + face_locations[0][2]) // 2
FaceCenterY(face) == (face.top + face.bottom) \div 2

\* Lines 47-57: (left, right) of the crop, full = image width.
HorizontalWindow(full, new_width, faces) ==
    LET left == (full - new_width) \div 2
        right == left + new_width
    IN  IF faces # <<>> /\ FaceCenterX(faces[1]) < left THEN <<0, new_width>>
        ELSE IF faces # <<>> /\ FaceCenterX(faces[1]) > right
             THEN <<full - new_width, full>>
        ELSE <<left, right>>

\* Lines 61-71: (top, bottom) of the crop, full = image height.
VerticalWindow(full, new_height, faces) ==
    LET top == (full - new_height) \div 2
        bottom == top + new_height
    IN  IF faces # <<>> /\ FaceCenterY(faces[1]) < top THEN <<0, new_height>>
        ELSE IF faces # <<>> /\ FaceCenterY(faces[1]) > bottom
             THEN <<full - new_height, full>>
        ELSE <<top, bottom>>

InitCrop ==
    /\ crop_pc = "call"
    /\ width \in 1..MaxSource
    /\ height \in 1..MaxSource
    /\ target_width \in 1..MaxTarget
    /\ crop_target_height \in 1..MaxTarget
    /\ face_locations \in FaceBoxes(width, height)
    /\ ValidFace(face_locations)
    /\ new_size = 0
    /\ crop_box = <<>>
    /\ PlanIdle /\ ColorIdle

\* Lines 45-58 and 74: the source is relatively wider, the width is cut.
\* new_width = int(target_aspect_ratio * height)
CropWidth ==
    /\ crop_pc = "call"
    /\ width * crop_target_height > target_width * height
    /\ \E new_width \in IntOfFloat(target_width * height, crop_target_height,
                                   ExactQuotient(target_width, crop_target_height)) :
          /\ new_size' = new_width
          /\ crop_box' =
                 LET win == HorizontalWindow(width, new_width, face_locations)
                 IN  [left |-> win[1], upper |-> 0, right |-> win[2], lower |-> height]
    /\ crop_pc' = "cropped"
    /\ UNCHANGED <<width, height, target_width, crop_target_height, face_locations>>
    /\ UNCHANGED <<planVars, colorVars>>

\* Lines 59-72 and 74: the source is relatively taller, the height is cut.
\* new_height = int(width / target_aspect_ratio)
CropHeight ==
    /\ crop_pc = "call"
    /\ width * crop_target_height < target_width * height
    /\ \E new_height \in IntOfFloat(width * crop_target_height, target_width,
                                    /\ ExactQuotient(target_width, crop_target_height)
                                    /\ ExactQuotient(width * crop_target_height,
                                                     target_width)) :
          /\ new_size' = new_height
          /\ crop_box' =
                 LET win == VerticalWindow(height, new_height, face_locations)
                 IN  [left |-> 0, upper |-> win[1], right |-> width, lower |-> win[2]]
    /\ crop_pc' = "cropped"
    /\ UNCHANGED <<width, height, target_width, crop_target_height, face_locations>>
    /\ UNCHANGED <<planVars, colorVars>>

\* Line 74 alone: equal aspect ratios, the whole image is resized.
ResizeOnly ==
    /\ crop_pc = "call"
    /\ width * crop_target_height = target_width * height
    /\ new_size' = 0
    /\ crop_box' = [left |-> 0, upper |-> 0, right |-> width, lower |-> height]
    /\ crop_pc' = "resized"
    /\ UNCHANGED <<width, height, target_width, crop_target_height, face_locations>>
    /\ UNCHANGED <<planVars, colorVars>>

NextCrop == CropWidth \/ CropHeight \/ ResizeOnly

SpecCrop == InitCrop /\ [][NextCrop]_vars

----------------------------------------------------------------------------
(* Properties of the crop window.                                          *)

CutsWidth == crop_pc = "cropped" /\ width * crop_target_height > target_width * height

CutsHeight == crop_pc = "cropped" /\ width * crop_target_height < target_width * height

\* Start of the symmetric centre window on the cut axis.
CentreStart == ((IF CutsWidth THEN width ELSE height) - new_size) \div 2

CentreEnd == CentreStart + new_size

FullSize == IF CutsWidth THEN width ELSE height

WindowStart == IF CutsWidth THEN crop_box.left ELSE crop_box.upper

WindowEnd == IF CutsWidth THEN crop_box.right ELSE crop_box.lower

FaceStart == IF CutsWidth THEN face_locations[1].left ELSE face_locations[1].top

FaceEnd == IF CutsWidth THEN face_locations[1].right ELSE face_locations[1].bottom

FaceMid == (FaceStart + FaceEnd) \div 2

FaceInsideCentre == CentreStart <= FaceStart /\ FaceEnd <= CentreEnd

\* C6: on the cut axis (x when the source is relatively wider, y when it is
\* relatively taller) the window is the symmetric centre window when there
\* is no face or the face box lies inside it, starts at 0 with the new
\* length when the face midpoint is before it, and ends at the full size
\* with the new length when the face midpoint is past it.
SnapToEdgeWindow ==
    (CutsWidth \/ CutsHeight) =>
        /\ CutsWidth => crop_box.upper = 0 /\ crop_box.lower = height
        /\ CutsHeight => crop_box.left = 0 /\ crop_box.right = width
        /\ face_locations = <<>> =>
               WindowStart = CentreStart /\ WindowEnd = CentreEnd
        /\ (face_locations # <<>> /\ FaceInsideCentre) =>
               WindowStart = CentreStart /\ WindowEnd = CentreEnd
        /\ (face_locations # <<>> /\ FaceMid < CentreStart) =>
               WindowStart = 0 /\ WindowEnd = new_size
        /\ (face_locations # <<>> /\ FaceMid > CentreEnd) =>
               WindowStart = FullSize - new_size /\ WindowEnd = FullSize

\* A width cut whose face midpoint is past the centre window, with the face
\* box on a different span of rows than of columns.
SnapToEdgeWindowWitness ==
    /\ CutsWidth /\ face_locations # <<>>
    /\ FaceMid > CentreEnd
    /\ WindowEnd = width /\ WindowStart > CentreStart
    /\ FaceCenterY(face_locations[1]) <= CentreEnd

\* C7: whenever the symmetric centre window would clip the face box on the
\* cut axis, the window finally used contains the face box on that axis.
FaceNeverCutOff ==
    ((CutsWidth \/ CutsHeight) /\ face_locations # <<>> /\ ~FaceInsideCentre)
        => (WindowStart <= FaceStart /\ FaceEnd <= WindowEnd)

----------------------------------------------------------------------------
(* parse_rgb_color.                                                        *)

HexDigits == {"0", "8", "F"}

\* The characters of the modelled arguments: the hash, three hex digits, a
\* sign (int() of Python accepts it) and a letter that is no hex digit.
ColorChars == HexDigits \cup {"#", "+", "Z"}

HexValue(c) == CASE c = "0" -> 0 [] c = "8" -> 8 [] c = "F" -> 15

ColorStrings == UNION {[1..n -> ColorChars] : n \in 0..MaxColorLen}

\* color_string.lstrip('#'): every leading '#' goes.
RECURSIVE LStripHash(_)
LStripHash(s) ==
    IF s # <<>> /\ Head(s) = "#" THEN LStripHash(Tail(s)) ELSE s

\* int(a + b, 16) succeeds: two hex digits, or a sign and one hex digit.
IntBase16Parses(a, b) ==
    \/ a \in HexDigits /\ b \in HexDigits
    \/ a = "+" /\ b \in HexDigits

IntBase16(a, b) == IF a = "+" THEN HexValue(b) ELSE 16 * HexValue(a) + HexValue(b)

\* Line 90, reached from the handler of line 89: the module imports the
\* names ArgumentParser and ArgumentTypeError (line 13) but never binds
\* the name argparse, so evaluating argparse.ArgumentTypeError raises
\* NameError and the ArgumentTypeError is never built.
InvalidColorOutcome == [kind |-> "NameError", rgb |-> <<>>]

\* Lines 78-90.
ParseRgbColorResult(str) ==
    LET c == LStripHash(str)
    IN  IF Len(c) = 6
        THEN IF \A i \in {1, 3, 5} : IntBase16Parses(c[i], c[i + 1])
             THEN [kind |-> "rgb",
                   rgb |-> <<IntBase16(c[1], c[2]), IntBase16(c[3], c[4]),
                             IntBase16(c[5], c[6])>>]
             ELSE InvalidColorOutcome
        ELSE IF Len(c) = 3
        THEN IF \A i \in 1..3 : IntBase16Parses(c[i], c[i])
             THEN [kind |-> "rgb",
                   rgb |-> <<IntBase16(c[1], c[1]), IntBase16(c[2], c[2]),
                             IntBase16(c[3], c[3])>>]
             ELSE InvalidColorOutcome
        ELSE InvalidColorOutcome

InitColor ==
    /\ color_pc = "call"
    /\ color_string \in ColorStrings
    /\ color_result = <<>>
    /\ PlanIdle /\ CropIdle

\* argparse applies type=parse_rgb_color to the -c argument.
ParseRgbColor ==
    /\ color_pc = "call"
    /\ color_result' = ParseRgbColorResult(color_string)
    /\ color_pc' = IF color_result'.kind = "rgb" THEN "returned" ELSE "raised"
    /\ UNCHANGED color_string
    /\ UNCHANGED <<planVars, cropVars>>

NextColor == ParseRgbColor

SpecColor == InitColor /\ [][NextColor]_vars

----------------------------------------------------------------------------
(* Properties of the colour parser.                                        *)

\* The argument without its optional leading '#'.
ColorBody ==
    IF color_string # <<>> /\ Head(color_string) = "#"
    THEN Tail(color_string) ELSE color_string

WellFormedColor ==
    /\ Len(ColorBody) \in {3, 6}
    /\ \A i \in 1..Len(ColorBody) : ColorBody[i] \in HexDigits

ExpectedRgb ==
    IF Len(ColorBody) = 6
    THEN [i \in 1..3 |-> 16 * HexValue(ColorBody[2 * i - 1]) + HexValue(ColorBody[2 * i])]
    ELSE [i \in 1..3 |-> 17 * HexValue(ColorBody[i])]

\* C8: 3 or 6 hex digits with an optional leading '#' give the RGB triple;
\* every other input ends in the invalid-format error (ArgumentTypeError,
\* naming '#RRGGBB' and '#RGB') and in no other kind of error.
ColorParseContract ==
    color_pc # "call" =>
        IF WellFormedColor
        THEN color_result.kind = "rgb" /\ color_result.rgb = ExpectedRgb
        ELSE color_result.kind = "ArgumentTypeError"

====
